---- MODULE Spec2Model ----
(***************************************************************************)
(* Model of the hackathon ideation workflow                                *)
(* (src/Hackathon/agentic-ai-project): the five stage functions            *)
(* generate_prompts, process_ideas, detect_challenges, score_opportunities *)
(* and refine_problem_statement, their module-level conversation memories, *)
(* and the Streamlit form handlers of app.py that commit stage results to  *)
(* the session state.                                                      *)
(*                                                                         *)
(* Text is a sequence of tokens.  Every character the code splits on,      *)
(* strips or replaces (" ", ":", "(", ")", "/", "-", "[", "]", ",", the    *)
(* newline) is a token of its own; a word is a token holding none of these *)
(* characters at a place an operation could cut.  Python's str methods are *)
(* modelled on token sequences by what they do.                            *)
(* Python's None / optional value: <<>> is None, <<v>> is the value v.      *)
(* A Python dict with optional keys is a function whose DOMAIN is the set  *)
(* of keys present.                                                        *)
(***************************************************************************)
EXTENDS Integers, Sequences, FiniteSets, TLC

VARIABLES
    session_state,  \* st.session_state of app.py: one field per slot
    memory,         \* the module-level ConversationBufferMemory of each agent module
    llm_calls,      \* completion-client invocations made so far
    call,           \* the stage call made last: its arguments, completion outcome and effect
    steps,          \* form submissions handled so far
    session,        \* the browser session whose script run is executing
    parked,         \* st.session_state of every session, as its last script run left it
    appended_by,    \* for each agent's memory, the session that appended each entry
    graph,          \* the interview-evaluation graph run: next node, GraphState, model calls
    react_agent     \* the ReActAgent object of Day4: topic, questions, answers, last method call

vars == <<session_state, memory, llm_calls, call, steps, session, parked, appended_by, graph, react_agent>>

(* ------------------------------------------------------------------ *)
(* Bounds of the model                                                *)
(* ------------------------------------------------------------------ *)
\* lines of a generated response
MaxLines == 3
\* form submissions in one app session
MaxSteps == 5
\* record-start lines of a response made of record-start lines only
MaxRecords == 4
\* lines of a brainstorm response
MaxPromptLines == 6
\* lines of a question response
MaxQuestions == 2

(* ------------------------------------------------------------------ *)
(* Python str operations on token sequences                           *)
(* ------------------------------------------------------------------ *)
NL == "\n"
SP == " "
\* str.strip() with no argument strips whitespace
Whitespace == {SP, NL}

MinOf(S) == CHOOSE x \in S : \A y \in S : x <= y
MaxOf(S) == CHOOSE x \in S : \A y \in S : x >= y

\* s.startswith(p)
StartsWith(s, p) == Len(s) >= Len(p) /\ SubSeq(s, 1, Len(p)) = p

\* s.find(p) + 1: the first place p occurs in s, 0 when it does not
IndexOf(s, p) ==
    LET at == {i \in 1..(Len(s) - Len(p) + 1) : SubSeq(s, i, i + Len(p) - 1) = p}
    IN  IF at = {} THEN 0 ELSE MinOf(at)

\* p in s
Contains(s, p) == IndexOf(s, p) # 0

\* s.split(sep): the parts of s between the occurrences of sep, left to right
RECURSIVE Split(_, _)
Split(s, sep) ==
    LET i == IndexOf(s, sep)
    IN  IF i = 0 THEN <<s>>
        ELSE <<SubSeq(s, 1, i - 1)>> \o Split(SubSeq(s, i + Len(sep), Len(s)), sep)

\* s.replace(old, new): every occurrence, left to right, none overlapping
RECURSIVE Replace(_, _, _)
Replace(s, old, new) ==
    LET i == IndexOf(s, old)
    IN  IF i = 0 THEN s
        ELSE SubSeq(s, 1, i - 1) \o new \o Replace(SubSeq(s, i + Len(old), Len(s)), old, new)

\* s.strip(chars): drops leading and trailing tokens that are in chars
StripChars(s, chars) ==
    LET keep == {i \in 1..Len(s) : s[i] \notin chars}
    IN  IF keep = {} THEN <<>> ELSE SubSeq(s, MinOf(keep), MaxOf(keep))

\* s.strip()
Strip(s) == StripChars(s, Whitespace)

\* sep.join(parts)
RECURSIVE Join(_, _)
Join(parts, sep) ==
    IF parts = <<>> THEN <<>>
    ELSE IF Len(parts) = 1 THEN parts[1]
    ELSE parts[1] \o sep \o Join(Tail(parts), sep)

\* the concatenation of a sequence of texts
RECURSIVE Concat(_)
Concat(parts) == IF parts = <<>> THEN <<>> ELSE parts[1] \o Concat(Tail(parts))

\* [line.strip() for line in response.strip().split("\n")]
StrippedLines(response) ==
    LET lines == Split(Strip(response), <<NL>>)
    IN  [i \in 1..Len(lines) |-> Strip(lines[i])]

\* Optional values
None == <<>>
Some(v) == <<v>>
\* Python truthiness of an optional text: None and "" are false
Truthy(opt) == opt # None /\ opt[1] # <<>>

\* s[:n]
Take(s, n) == SubSeq(s, 1, IF Len(s) < n THEN Len(s) ELSE n)

\* the sequences over S of length at most n
SeqsUpTo(S, n) == UNION {[1..k -> S] : k \in 0..n}

(* ------------------------------------------------------------------ *)
(* The completion client: a call returns a text or fails              *)
(* ------------------------------------------------------------------ *)
\* the text of the exception a failed call raises
Errors == {<<"quota exceeded">>}
Ok(text) == [ok |-> TRUE, text |-> text]
Failed(e) == [ok |-> FALSE, text |-> e]
Failures == {Failed(e) : e \in Errors}

(* ------------------------------------------------------------------ *)
(* Values of the workflow                                             *)
(* ------------------------------------------------------------------ *)
\* str(list of str): "['a', 'b']"
PyRepr(items) ==
    <<"[">> \o Join([i \in 1..Len(items) |-> <<"'">> \o items[i] \o <<"'">>], <<",", SP>>) \o <<"]">>

\* str.lower(), word by word
LowerWord(w) == CASE w = "agentic AI" -> "agentic ai"
                  [] w = "Health" -> "health"
                  [] OTHER -> w
Lower(s) == [i \in 1..Len(s) |-> LowerWord(s[i])]

\* a dict as the sequence of its items in insertion order
DictKeys(d) == {d[i].key : i \in 1..Len(d)}
DictValues(d) == [i \in 1..Len(d) |-> d[i].value]
\* any(d.values()) for a dict of lists
AnyValue(d) == \E i \in 1..Len(d) : d[i].value # <<>>
\* d[k] = v: a new key is added last, a present key keeps its place
DictSet(d, k, v) ==
    IF k \in DictKeys(d)
    THEN [i \in 1..Len(d) |-> IF d[i].key = k THEN [key |-> k, value |-> v] ELSE d[i]]
    ELSE Append(d, [key |-> k, value |-> v])
\* d[k] for a key that is present
DictGet(d, k) == d[CHOOSE i \in 1..Len(d) : d[i].key = k].value

\* [x for v in d.values() for x in v]
AllIdeas(clustered) == Concat(DictValues(clustered))

Themes == {<<"agentic AI">>}
IdeaA == <<"Cut costs">>
IdeaB == <<"Vague idea">>
Item(idea, tags) == [idea |-> idea, tags |-> tags]

(* ------------------------------------------------------------------ *)
(* agents/challenge_detector.py                                       *)
(* ------------------------------------------------------------------ *)
IdeaStart == <<"-", SP, "Idea", ":">>
IdeaMarker == <<"Idea", ":">>
PainPointMarker == <<"Pain Point", ":">>
StakeholdersMarker == <<"Affected Users", "/", "Stakeholders", ":">>
ImportanceMarker == <<"Importance", ":">>
FilteredMarker == <<"Filtered", ":">>
ReasonMarker == <<"(", "Reason", ":">>

\* ideas_str, lines 49-53
RECURSIVE ItemsStr(_)
ItemsStr(items) ==
    IF items = <<>> THEN <<>>
    ELSE IdeaStart \o <<SP>> \o items[1].idea \o <<",", SP, "Tags", ":", SP>>
         \o PyRepr(items[1].tags) \o <<NL>> \o ItemsStr(Tail(items))
RECURSIVE IdeasStr(_)
IdeasStr(clustered) ==
    IF clustered = <<>> THEN <<>>
    ELSE <<"Theme", ":", SP>> \o clustered[1].key \o <<NL>> \o ItemsStr(clustered[1].value)
         \o IdeasStr(Tail(clustered))

\* the parser's locals before the first line, lines 72-75
ChParseInit ==
    [challenges |-> <<>>, filtered_ideas |-> <<>>, current_idea |-> None,
     current_challenge |-> <<>>, raised |-> FALSE]

\* the "Filtered:" branch, lines 89-93. parts[2] of a line without "(Reason:"
\* is an IndexError, which nothing in detect_challenges catches.
ChFiltered(st, line) ==
    LET idea_reason == Strip(Replace(line, FilteredMarker, <<>>))
        parts == Split(idea_reason, ReasonMarker)
    IN  IF Len(parts) < 2 THEN [st EXCEPT !.raised = TRUE]
        ELSE [st EXCEPT !.filtered_ideas =
                 Append(@, [idea |-> Strip(parts[1]), reason |-> StripChars(parts[2], {")"})])]

\* one iteration of the loop over the lines, lines 77-93
ChParseLine(st, line) ==
    IF StartsWith(line, IdeaStart) THEN
        LET idea == Strip(Split(line, IdeaMarker)[2])
        IN  [st EXCEPT !.challenges = IF Truthy(st.current_idea)
                                      THEN Append(@, st.current_challenge) ELSE @,
                       !.current_idea = Some(idea),
                       !.current_challenge = ("idea" :> idea)]
    ELSE IF StartsWith(line, PainPointMarker) /\ Truthy(st.current_idea) THEN
        [st EXCEPT !.current_challenge =
            ("pain_point" :> Strip(Replace(line, PainPointMarker, <<>>))) @@ @]
    ELSE IF StartsWith(line, StakeholdersMarker) /\ Truthy(st.current_idea) THEN
        [st EXCEPT !.current_challenge =
            ("users_stakeholders" :> Strip(Replace(line, StakeholdersMarker, <<>>))) @@ @]
    ELSE IF StartsWith(line, ImportanceMarker) /\ Truthy(st.current_idea) THEN
        [st EXCEPT !.current_challenge =
            ("importance" :> Strip(Replace(line, ImportanceMarker, <<>>))) @@ @]
    ELSE IF StartsWith(line, FilteredMarker) THEN ChFiltered(st, line)
    ELSE st

\* the loop, lines 76-93: an exception ends it
RECURSIVE ChParseLoop(_, _)
ChParseLoop(st, lines) ==
    IF lines = <<>> \/ st.raised THEN st
    ELSE ChParseLoop(ChParseLine(st, lines[1]), Tail(lines))

\* the parse of a response, lines 72-96
ChParse(response) ==
    LET st == ChParseLoop(ChParseInit, StrippedLines(response))
    IN  IF st.raised THEN st
        ELSE [st EXCEPT !.challenges = IF Truthy(st.current_idea)
                                       THEN Append(@, st.current_challenge) ELSE @]

\* the value returned when the completion call fails, lines 62-69
ChFailureNoMarker(clustered_ideas, e) ==
    LET ideas == AllIdeas(clustered_ideas)
    IN  [challenges |-> [i \in 1..Len(ideas) |-> [idea |-> ideas[i].idea]],
         filtered_ideas |-> <<>>]
ChFailure(clustered_ideas, e) ==
    LET ideas == AllIdeas(clustered_ideas)
    IN  [error |-> <<"Error analyzing challenges", ":", SP>> \o e,
         challenges |-> <<>>,
         filtered_ideas |-> [i \in 1..Len(ideas) |->
             [idea |-> ideas[i].idea, reason |-> <<"Analysis failed", ":", SP>> \o e]]]

\* the stage's memory.save_context, lines 98-101
ChSaved(clustered_ideas, theme, response) ==
    <<[input |-> <<"Analyze challenges for clustered ideas", ":", SP>> \o IdeasStr(clustered_ideas)
                 \o <<",", SP, "theme", ":", SP>> \o theme,
       output |-> response]>>

\* What a call of a stage function does: whether it raised, the value it
\* returned, the entries it saved to its module's memory, and the number of
\* completion calls it made.
Returned(value, saved, calls) ==
    [raised |-> FALSE, value |-> value, saved |-> saved, calls |-> calls]
Raised(calls) == [raised |-> TRUE, saved |-> <<>>, calls |-> calls]

\* not clustered_ideas or not any(clustered_ideas.values()), line 45
ChMissingNoAnyCheck(clustered_ideas) == clustered_ideas = <<>>
ChMissing(clustered_ideas) == clustered_ideas = <<>> \/ ~AnyValue(clustered_ideas)

\* detect_challenges(clustered_ideas, theme) with the completion outcome out
detect_challenges(clustered_ideas, theme, out) ==
    IF ChMissing(clustered_ideas) THEN
        Returned([error |-> <<"No valid clustered ideas provided.">>,
                  challenges |-> <<>>, filtered_ideas |-> <<>>], <<>>, 0)
    ELSE IF ~out.ok THEN Returned(ChFailure(clustered_ideas, out.text), <<>>, 1)
    ELSE LET st == ChParse(out.text)
         IN  IF st.raised THEN Raised(1)
             ELSE Returned([challenges |-> st.challenges, filtered_ideas |-> st.filtered_ideas],
                           ChSaved(clustered_ideas, theme, out.text), 1)

\* --- inputs of the checks ---
\* a response line: indent, marker, text
ChLines ==
    { IdeaStart \o <<SP>> \o IdeaA,
      IdeaStart \o <<SP>> \o IdeaB,
      IdeaStart,
      <<SP, SP>> \o PainPointMarker \o <<SP, "high spend">>,
      <<SP, SP>> \o ImportanceMarker \o <<SP, "saves money">>,
      FilteredMarker \o <<SP>> \o IdeaB \o <<SP>> \o ReasonMarker \o <<SP, "too generic", ")">>,
      FilteredMarker \o <<SP>> \o IdeaB,
      <<"Here is the analysis", ":">> }

\* the five-line response of Scenario A
ScenarioA ==
    Join(<< IdeaStart \o <<SP>> \o IdeaA,
            <<SP, SP>> \o PainPointMarker \o <<SP, "high spend">>,
            <<SP, SP>> \o StakeholdersMarker \o <<SP, "ops">>,
            <<SP, SP>> \o ImportanceMarker \o <<SP, "saves money">>,
            FilteredMarker \o <<SP>> \o IdeaB \o <<SP>> \o ReasonMarker \o <<SP, "too generic", ")">> >>,
         <<NL>>)

\* record-start lines whose idea itself holds the marker or a colon
ChNestedLines ==
    { IdeaStart \o <<SP, "Reuse", SP>> \o IdeaMarker \o <<SP, "boards">>,
      IdeaStart \o <<SP, "Plan", ":", SP, "cut costs">> }

ChResponses == {Join(ls, <<NL>>) : ls \in SeqsUpTo(ChLines, MaxLines)} \cup {ScenarioA}
               \cup {Join(ls, <<NL>>) : ls \in SeqsUpTo(ChNestedLines, MaxLines)}
ChOutcomes == {Ok(r) : r \in ChResponses} \cup Failures

\* clustered ideas handed to detect_challenges
ClusterInputs ==
    { <<>>,
      <<[key |-> <<"agentic AI">>, value |-> <<>>]>>,
      <<[key |-> <<"agentic AI">>, value |-> <<Item(IdeaA, <<<<"AI">>>>)>>]>>,
      <<[key |-> <<"agentic AI">>, value |-> <<Item(IdeaA, <<<<"AI">>>>), Item(IdeaB, <<<<"generic">>>>)>>]>>,
      <<[key |-> <<"agentic AI">>, value |-> <<Item(IdeaA, <<<<"AI">>>>)>>],
        [key |-> <<"automation">>, value |-> <<Item(IdeaB, <<<<"generic">>>>)>>]>> }

(* ------------------------------------------------------------------ *)
(* agents/opportunity_scorer.py                                       *)
(* ------------------------------------------------------------------ *)
RankStart == <<"-", SP, "Rank">>
FeasibilityMarker == <<"Feasibility", ":">>
ImpactMarker == <<"Impact", ":">>
EmpathyMarker == <<"Empathy", ":">>
TotalScoreMarker == <<"Total Score", ":">>

\* the words int() reads as a decimal integer, with their values
IntWords == {"0", "1", "2", "3", "4", "5", "50", "85", "100", "150"}
IntValue(w) == CASE w = "0" -> 0 [] w = "1" -> 1 [] w = "2" -> 2 [] w = "3" -> 3
                 [] w = "4" -> 4 [] w = "5" -> 5 [] w = "50" -> 50 [] w = "85" -> 85
                 [] w = "100" -> 100 [] w = "150" -> 150
\* int(s): surrounding whitespace and one sign are allowed; anything else is a ValueError
IsInt(s) ==
    LET t == Strip(s)
    IN  \/ Len(t) = 1 /\ t[1] \in IntWords
        \/ Len(t) = 2 /\ t[1] \in {"-", "+"} /\ t[2] \in IntWords
PyInt(s) ==
    LET t == Strip(s)
    IN  IF Len(t) = 1 THEN IntValue(t[1])
        ELSE IF t[1] = "-" THEN 0 - IntValue(t[2]) ELSE IntValue(t[2])
\* float(s), in tenths: the integers and the decimal words
DecimalWords == {"85.5"}
IsFloat(s) == IsInt(s) \/ (Len(Strip(s)) = 1 /\ Strip(s)[1] \in DecimalWords)
PyFloatTenths(s) ==
    IF IsInt(s) THEN 10 * PyInt(s)
    ELSE CASE Strip(s)[1] = "85.5" -> 855

\* 'Optimize' in idea: the words that hold the substring
OptimizeWords == {"Optimize a process"}
MentionsOptimize(idea) == \E i \in 1..Len(idea) : idea[i] \in OptimizeWords

\* challenge.get(key, 'N/A')
GetOrNA(d, key) == IF key \in DOMAIN d THEN d[key] ELSE <<"N", "/", "A">>

\* challenges_str, lines 60-65
RECURSIVE ChallengesStr(_)
ChallengesStr(chs) ==
    IF chs = <<>> THEN <<>>
    ELSE IdeaStart \o <<SP>> \o chs[1].idea \o <<NL>>
         \o <<SP, SP>> \o PainPointMarker \o <<SP>> \o GetOrNA(chs[1], "pain_point") \o <<NL>>
         \o <<SP, SP>> \o StakeholdersMarker \o <<SP>> \o GetOrNA(chs[1], "users_stakeholders") \o <<NL>>
         \o <<SP, SP>> \o ImportanceMarker \o <<SP>> \o GetOrNA(chs[1], "importance") \o <<NL>>
         \o ChallengesStr(Tail(chs))

\* the mock survey, lines 67-71
MockSurvey(chs) ==
    Join([i \in 1..Len(chs) |->
            IdeaMarker \o <<SP>> \o chs[i].idea \o <<",", SP, "User Rating", ":", SP>>
            \o <<IF MentionsOptimize(chs[i].idea) THEN "80" ELSE "50">> \o <<"/", "100">>],
         <<NL>>)

\* the parser's locals before the first line, lines 89-91
ScParseInit ==
    [ranked_opportunities |-> <<>>, current_opportunity |-> <<>>, current_rank |-> None,
     raised |-> FALSE]

\* the "- Rank" branch, lines 94-98: line.split(":")[1] of a line without a
\* colon is an IndexError
ScRank(st, line) ==
    LET parts == Split(line, <<":">>)
        rank == Strip(Replace(parts[1], <<"-", SP>>, <<>>))
    IN  IF Len(parts) < 2 THEN [st EXCEPT !.raised = TRUE]
        ELSE [st EXCEPT
                !.ranked_opportunities =
                    IF Truthy(st.current_rank) /\ st.current_opportunity # <<>>
                    THEN Append(@, st.current_opportunity) ELSE @,
                !.current_rank = Some(rank),
                !.current_opportunity = [rank |-> rank, idea |-> Strip(parts[2])]]

\* a "<Field>: <int>/100 (Reason: <text>)" branch, lines 99-110: unpacking
\* anything but two parts, and int() of a non-integer, are ValueErrors
ScScored(st, line, marker, field, reason_field) ==
    LET parts == Split(Replace(line, marker, <<>>), ReasonMarker)
        score == Split(parts[1], <<"/">>)[1]
    IN  IF Len(parts) # 2 \/ ~IsInt(score) THEN [st EXCEPT !.raised = TRUE]
        ELSE [st EXCEPT !.current_opportunity =
                 (field :> PyInt(score)) @@ (reason_field :> StripChars(parts[2], {")"})) @@ @]

\* the "Total Score:" branch, lines 111-112: float() of a non-number is a ValueError
ScTotal(st, line) ==
    LET score == Split(Replace(line, TotalScoreMarker, <<>>), <<"/">>)[1]
    IN  IF ~IsFloat(score) THEN [st EXCEPT !.raised = TRUE]
        ELSE [st EXCEPT !.current_opportunity = ("total_score" :> PyFloatTenths(score)) @@ @]

\* the loop body as it would be if the field branches did not test current_rank
ScParseLineUnguarded(st, line) ==
    IF StartsWith(line, RankStart) THEN ScRank(st, line)
    ELSE IF StartsWith(line, FeasibilityMarker) THEN
        ScScored(st, line, FeasibilityMarker, "feasibility", "feasibility_reason")
    ELSE IF StartsWith(line, ImpactMarker) THEN
        ScScored(st, line, ImpactMarker, "impact", "impact_reason")
    ELSE IF StartsWith(line, EmpathyMarker) THEN
        ScScored(st, line, EmpathyMarker, "empathy", "empathy_reason")
    ELSE IF StartsWith(line, TotalScoreMarker) THEN ScTotal(st, line)
    ELSE st

\* one iteration of the loop over the lines, lines 93-112
ScParseLine(st, line) ==
    IF StartsWith(line, RankStart) THEN ScRank(st, line)
    ELSE IF StartsWith(line, FeasibilityMarker) /\ Truthy(st.current_rank) THEN
        ScScored(st, line, FeasibilityMarker, "feasibility", "feasibility_reason")
    ELSE IF StartsWith(line, ImpactMarker) /\ Truthy(st.current_rank) THEN
        ScScored(st, line, ImpactMarker, "impact", "impact_reason")
    ELSE IF StartsWith(line, EmpathyMarker) /\ Truthy(st.current_rank) THEN
        ScScored(st, line, EmpathyMarker, "empathy", "empathy_reason")
    ELSE IF StartsWith(line, TotalScoreMarker) /\ Truthy(st.current_rank) THEN ScTotal(st, line)
    ELSE st

RECURSIVE ScParseLoop(_, _)
ScParseLoop(st, lines) ==
    IF lines = <<>> \/ st.raised THEN st
    ELSE ScParseLoop(ScParseLine(st, lines[1]), Tail(lines))

\* the parse of a response, lines 89-115
ScParse(response) ==
    LET st == ScParseLoop(ScParseInit, StrippedLines(response))
    IN  IF st.raised THEN st
        ELSE [st EXCEPT !.ranked_opportunities =
                 IF Truthy(st.current_rank) /\ st.current_opportunity # <<>>
                 THEN Append(@, st.current_opportunity) ELSE @]

\* ranked_opportunities[:3], line 123
TopThreeNoCap(ranked) == ranked
TopThree(ranked) == Take(ranked, 3)

\* the stage's memory.save_context, lines 117-120
ScSaved(challenges, theme, survey, response) ==
    <<[input |-> <<"Score opportunities for challenges", ":", SP>> \o ChallengesStr(challenges)
                 \o <<",", SP, "theme", ":", SP>> \o theme
                 \o <<",", SP, "survey", ":", SP>> \o survey,
       output |-> response]>>

\* score_opportunities(challenges, theme, survey_results) with the completion outcome out
score_opportunities(challenges, theme, survey_results, out) ==
    IF challenges = <<>> THEN
        Returned([error |-> <<"No valid challenges provided.">>, ranked_opportunities |-> <<>>],
                 <<>>, 0)
    ELSE IF ~out.ok THEN
        Returned([error |-> <<"Error scoring opportunities", ":", SP>> \o out.text,
                  ranked_opportunities |-> <<>>], <<>>, 1)
    ELSE LET survey == IF survey_results = <<>> THEN MockSurvey(challenges) ELSE survey_results
             st == ScParse(out.text)
         IN  IF st.raised THEN Raised(1)
             ELSE Returned([ranked_opportunities |-> TopThree(st.ranked_opportunities)],
                           ScSaved(challenges, theme, survey, out.text), 1)

\* --- inputs of the checks ---
RankLine(n, idea) == RankStart \o <<SP, n, ":", SP>> \o idea
Scored(marker, score) ==
    <<SP, SP>> \o marker \o <<SP>> \o score \o <<"/", "100", SP>> \o ReasonMarker
    \o <<SP, "fits the team", ")">>
ScLines ==
    { RankLine("1", IdeaA),
      RankLine("2", IdeaB),
      RankStart \o <<SP, "1">>,
      Scored(FeasibilityMarker, <<"85">>),
      <<SP, SP>> \o FeasibilityMarker \o <<SP, "high">>,
      Scored(ImpactMarker, <<"150">>),
      Scored(EmpathyMarker, <<"about", SP, "50">>),
      <<SP, SP>> \o TotalScoreMarker \o <<SP, "85.5", "/", "100">>,
      <<"Here is the ranking", ":">> }
\* responses of record-start lines only
RankOnlyLines == {RankLine("1", IdeaA), RankLine("2", IdeaB), RankLine("3", <<"Optimize a process">>)}

\* record-start lines whose idea itself holds a colon
ScNestedLines ==
    { RankLine("1", <<"Plan", ":", SP, "cut costs">>),
      RankLine("2", <<"Reuse", SP>> \o IdeaMarker \o <<SP, "boards">>) }

ScResponses == {Join(ls, <<NL>>) : ls \in SeqsUpTo(ScLines, MaxLines)}
               \cup {Join(ls, <<NL>>) : ls \in SeqsUpTo(RankOnlyLines, MaxRecords)}
               \cup {Join(ls, <<NL>>) : ls \in SeqsUpTo(ScNestedLines, MaxLines)}
ScOutcomes == {Ok(r) : r \in ScResponses} \cup Failures

\* challenges handed to score_opportunities
ChallengeInputs ==
    { <<>>,
      <<[idea |-> IdeaA]>>,
      <<[idea |-> IdeaA, pain_point |-> <<"high spend">>, users_stakeholders |-> <<"ops">>,
         importance |-> <<"saves money">>],
        [idea |-> <<"Optimize a process">>]>> }
SurveyInputs == {<<>>, IdeaMarker \o <<SP>> \o IdeaA \o <<",", SP, "User Rating", ":", SP, "85", "/", "100">>}

(* ------------------------------------------------------------------ *)
(* agents/brainstorm.py                                               *)
(* ------------------------------------------------------------------ *)
PromptMarker == <<"Prompt", ":">>
SourceMarker == <<"(", "Source", ":">>

\* get_project_metadata(title, theme, department), lines 116-133; id is a fresh uuid4
get_project_metadata(title, theme, department, id) ==
    [title |-> title, theme |-> theme, department |-> department, id |-> id]

\* metadata.get(key, 'general')
GetOrGeneral(metadata, key) == IF key \in DOMAIN metadata THEN metadata[key] ELSE <<"general">>
\* metadata.get("theme", "")
GetOrEmpty(metadata, key) == IF key \in DOMAIN metadata THEN metadata[key] ELSE <<>>

\* retrieve_relevant_docs(theme), lines 51-68: the formatted documents, [] when the
\* similarity search fails. A document is [page, content], page <<>> when unknown.
retrieve_relevant_docs(theme, search) ==
    IF ~search.ok THEN <<>>
    ELSE [i \in 1..Len(search.text) |->
            <<"Document", SP, ToString(i), SP, "(", "Page", SP>>
            \o (IF search.text[i].page = <<>> THEN <<"unknown">> ELSE search.text[i].page)
            \o <<")", ":", SP>> \o search.text[i].content \o <<"...">>]

\* the generic prompts, lines 99-103
fallback_prompts(metadata) ==
    << PromptMarker \o <<SP, "Explore a", SP>> \o GetOrGeneral(metadata, "theme")
         \o <<SP, "solution using AI", SP>> \o SourceMarker \o <<SP, "Generic", ")">>,
       PromptMarker \o <<SP, "Optimize a process", SP, "in", SP>> \o GetOrGeneral(metadata, "theme")
         \o <<SP>> \o SourceMarker \o <<SP, "Generic", ")">>,
       PromptMarker \o <<SP, "Address a challenge in", SP>> \o GetOrGeneral(metadata, "department")
         \o <<SP>> \o SourceMarker \o <<SP, "Generic", ")">> >>

IsPromptLine(line) == StartsWith(line, PromptMarker)
\* the lines of the response that start with "Prompt:", line 95
ParsePrompts(response) == SelectSeq(StrippedLines(response), IsPromptLine)

\* the padding of the parsed prompts, lines 98-104
PadPrompts(prompts, metadata) ==
    IF Len(prompts) < 3
    THEN prompts \o Take(fallback_prompts(metadata), 5 - Len(prompts))
    ELSE prompts

\* prompts[:5], line 106
CapPrompts(prompts) == Take(prompts, 5)

ErrorPrompts == << <<"Error", ":", SP, "Could not generate prompts.">> >>

\* str(metadata), as far as the memory entry needs it
MetadataStr(metadata) ==
    <<"{">> \o GetOrEmpty(metadata, "title") \o <<",", SP>> \o GetOrEmpty(metadata, "theme")
    \o <<",", SP>> \o GetOrEmpty(metadata, "department") \o <<",", SP>>
    \o GetOrEmpty(metadata, "id") \o <<"}">>

\* generate_prompts(metadata) with the similarity search outcome and the completion outcome
generate_prompts(metadata, search, out) ==
    LET retrieved_docs == retrieve_relevant_docs(GetOrEmpty(metadata, "theme"), search)
    IN  IF ~out.ok THEN Returned(ErrorPrompts, <<>>, 1)
        ELSE LET prompts == CapPrompts(PadPrompts(ParsePrompts(out.text), metadata))
             IN  Returned(prompts,
                          <<[input |-> <<"Generate prompts for", SP>> \o MetadataStr(metadata),
                             output |-> Join(prompts, <<NL>>)]>>, 1)

\* --- inputs of the checks ---
PromptLines ==
    { PromptMarker \o <<SP, "Design a multi-agent system", SP>> \o SourceMarker \o <<SP, "Page", SP, "3", ")">>,
      <<SP>> \o PromptMarker \o <<SP, "Survey users", SP>> \o SourceMarker \o <<SP, "Page", SP, "5", ")">>,
      <<"1", ".", SP>> \o PromptMarker \o <<SP, "Survey users">> }
PrResponses == {Join(ls, <<NL>>) : ls \in SeqsUpTo(PromptLines, MaxPromptLines)}
PrOutcomes == {Ok(r) : r \in PrResponses} \cup Failures
MetadataInputs ==
    { get_project_metadata(<<"Agent Framework">>, <<"agentic AI">>, <<"Computer Science">>, <<"id-1">>),
      [title |-> <<"Agent Framework">>] }
SearchOutcomes ==
    { Failed(<<"index unavailable">>),
      Ok(<<[page |-> <<"3">>, content |-> <<"Past project">>], [page |-> <<>>, content |-> <<"Notes">>]>>) }

(* ------------------------------------------------------------------ *)
(* agents/problem_refiner.py                                          *)
(* ------------------------------------------------------------------ *)
ProblemMarker == <<"Problem Statement", ":">>
KnowStart == <<"-", SP, "What we know", ":">>
LearnStart == <<"-", SP, "What we need to learn", ":">>
BulletStart == <<"-", SP>>

\* str(n) for an int
FormatInt(n) ==
    IF n < 0 THEN <<"-", CHOOSE w \in IntWords : IntValue(w) = 0 - n>>
    ELSE <<CHOOSE w \in IntWords : IntValue(w) = n>>
\* str(x) for a float held in tenths
FormatTenths(t) == FormatInt(t \div 10) \o <<".">> \o FormatInt(t % 10)

\* opportunity_str, lines 54-58
OpportunityStr(opp) ==
    LET num(k) == IF k \in DOMAIN opp THEN FormatInt(opp[k]) ELSE <<"N", "/", "A">>
        total == IF "total_score" \in DOMAIN opp THEN FormatTenths(opp.total_score)
                 ELSE <<"N", "/", "A">>
    IN  IdeaMarker \o <<SP>> \o opp.idea \o <<NL>>
        \o FeasibilityMarker \o <<SP>> \o num("feasibility") \o <<"/", "100", SP>> \o ReasonMarker
        \o <<SP>> \o GetOrNA(opp, "feasibility_reason") \o <<")", NL>>
        \o ImpactMarker \o <<SP>> \o num("impact") \o <<"/", "100", SP>> \o ReasonMarker
        \o <<SP>> \o GetOrNA(opp, "impact_reason") \o <<")", NL>>
        \o EmpathyMarker \o <<SP>> \o num("empathy") \o <<"/", "100", SP>> \o ReasonMarker
        \o <<SP>> \o GetOrNA(opp, "empathy_reason") \o <<")", NL>>
        \o TotalScoreMarker \o <<SP>> \o total \o <<"/", "100">>

\* the parser's locals before the first line, lines 75-77
RfParseInit ==
    [problem_statement |-> <<>>,
     knowledge_plan |-> [what_we_know |-> <<>>, what_we_need_to_learn |-> <<>>],
     current_section |-> None]

\* the iteration as it would be without the test for the "- What we know:" header
RfParseLineNoKnowHeader(st, line) ==
    IF StartsWith(line, ProblemMarker) THEN
        [st EXCEPT !.problem_statement = Strip(Replace(line, ProblemMarker, <<>>))]
    ELSE IF StartsWith(line, LearnStart) THEN
        [st EXCEPT !.current_section = Some("what_we_need_to_learn")]
    ELSE IF StartsWith(line, BulletStart) /\ st.current_section # None THEN
        [st EXCEPT !.knowledge_plan[st.current_section[1]] =
            Append(@, Strip(Replace(line, BulletStart, <<>>)))]
    ELSE st

\* one iteration of the loop over the lines, lines 79-87
RfParseLine(st, line) ==
    IF StartsWith(line, ProblemMarker) THEN
        [st EXCEPT !.problem_statement = Strip(Replace(line, ProblemMarker, <<>>))]
    ELSE IF StartsWith(line, KnowStart) THEN [st EXCEPT !.current_section = Some("what_we_know")]
    ELSE IF StartsWith(line, LearnStart) THEN
        [st EXCEPT !.current_section = Some("what_we_need_to_learn")]
    ELSE IF StartsWith(line, BulletStart) /\ st.current_section # None THEN
        [st EXCEPT !.knowledge_plan[st.current_section[1]] =
            Append(@, Strip(Replace(line, BulletStart, <<>>)))]
    ELSE st

RECURSIVE RfParseLoop(_, _)
RfParseLoop(st, lines) ==
    IF lines = <<>> THEN st ELSE RfParseLoop(RfParseLine(st, lines[1]), Tail(lines))

\* the parse of a response, lines 75-87
RfParse(response) == RfParseLoop(RfParseInit, StrippedLines(response))

\* not opportunity or not opportunity.get("idea"), line 50
RfMissing(opportunity) ==
    opportunity = <<>> \/ "idea" \notin DOMAIN opportunity \/ opportunity.idea = <<>>

\* refine_problem_statement(opportunity, theme) with the completion outcome out
refine_problem_statement(opportunity, theme, out) ==
    IF RfMissing(opportunity) THEN
        Returned([error |-> <<"No valid opportunity provided.">>, problem_statement |-> <<>>,
                  knowledge_plan |-> <<>>], <<>>, 0)
    ELSE IF ~out.ok THEN
        Returned([error |-> <<"Error refining problem statement", ":", SP>> \o out.text,
                  problem_statement |-> <<>>, knowledge_plan |-> <<>>], <<>>, 1)
    ELSE LET st == RfParse(out.text)
         IN  Returned([problem_statement |-> st.problem_statement,
                       knowledge_plan |-> st.knowledge_plan],
                      <<[input |-> <<"Refine problem statement for opportunity", ":", SP>>
                                   \o OpportunityStr(opportunity)
                                   \o <<",", SP, "theme", ":", SP>> \o theme,
                         output |-> out.text]>>, 1)

\* --- inputs of the checks ---
RfLines ==
    { ProblemMarker \o <<SP, "Ops teams overspend.">>,
      <<"Knowledge Plan", ":">>,
      KnowStart,
      LearnStart,
      <<SP, SP, "-", SP, "budgets are fixed">>,
      <<SP, SP, "-", SP, "which tools help">>,
      <<"-", SP, "What we know already">> }
RfResponses == {Join(ls, <<NL>>) : ls \in SeqsUpTo(RfLines, MaxLines)}
RfOutcomes == {Ok(r) : r \in RfResponses} \cup Failures
OpportunityInputs ==
    { <<>>,
      [rank |-> <<"Rank", SP, "1">>],
      [rank |-> <<"Rank", SP, "1">>, idea |-> <<>>],
      [rank |-> <<"Rank", SP, "1">>, idea |-> IdeaA],
      [rank |-> <<"Rank", SP, "1">>, idea |-> IdeaA, feasibility |-> 85,
       feasibility_reason |-> <<SP, "fits the team">>, total_score |-> 855] }

(* ------------------------------------------------------------------ *)
(* agents/idea_capture.py                                             *)
(* ------------------------------------------------------------------ *)
ThemeMarker == <<"Theme", ":">>
TagsMarker == <<",", SP, "Tags", ":">>
SuggestionMarker == <<"Suggestion for">>

\* the cluster text used when the agent run fails, lines 125-127
ClusterFallbackText(ideas, theme) ==
    ThemeMarker \o <<SP>> \o theme \o <<NL>>
    \o Join([i \in 1..Len(ideas) |->
               IdeaStart \o <<SP>> \o ideas[i] \o TagsMarker \o <<SP, "[", "generic", ",", SP>>
               \o Lower(theme) \o <<"]">>],
            <<NL>>)

\* the "- Idea:" branch, lines 138-144: a line without ", Tags:" is the IndexError
\* the code catches
ClusterItem(line) ==
    LET parts == Split(line, TagsMarker)
    IN  IF Len(parts) < 2
        THEN Item(Strip(Replace(line, IdeaStart, <<>>)), << <<"parse_error">> >>)
        ELSE Item(Strip(Replace(parts[1], IdeaStart, <<>>)),
                  Split(StripChars(Strip(parts[2]), {"[", "]"}), <<",", SP>>))

\* one iteration of the loop over the lines, lines 133-144
ClParseLine(st, line) ==
    IF StartsWith(line, ThemeMarker) THEN
        LET name == Strip(Replace(line, ThemeMarker, <<>>))
        IN  [clusters |-> DictSet(st.clusters, name, <<>>), current_theme |-> Some(name)]
    ELSE IF StartsWith(line, IdeaStart) /\ Truthy(st.current_theme) THEN
        LET name == st.current_theme[1]
        IN  [st EXCEPT !.clusters =
                DictSet(@, name, Append(DictGet(@, name), ClusterItem(line)))]
    ELSE st

RECURSIVE ClParseLoop(_, _)
ClParseLoop(st, lines) ==
    IF lines = <<>> THEN st ELSE ClParseLoop(ClParseLine(st, lines[1]), Tail(lines))

\* the parse of the cluster response, lines 130-144
ClParse(response) ==
    ClParseLoop([clusters |-> <<>>, current_theme |-> None], StrippedLines(response)).clusters

\* the fallback cluster, lines 146-148
ClusterFallback(ideas, theme) ==
    <<[key |-> theme,
       value |-> [i \in 1..Len(ideas) |-> Item(ideas[i], <<<<"generic">>, Lower(theme)>>)]]>>

\* clusters as committed, lines 130-148
Clusters(cluster_response, ideas, theme) ==
    LET clusters == ClParse(cluster_response)
    IN  IF clusters = <<>> THEN ClusterFallback(ideas, theme) ELSE clusters

\* the generic suggestions, lines 157-159 and 167-170
GenericSuggestions(ideas, theme) ==
    [i \in 1..Len(ideas) |->
        SuggestionMarker \o <<SP>> \o ideas[i]
        \o <<":", SP, "A generic flowchart showing the implementation steps for a", SP>>
        \o theme \o <<SP, "solution.">>]

IsSuggestionLine(line) == StartsWith(line, SuggestionMarker)
\* diagram_suggestions, lines 151-170
Suggestions(diagram_out, ideas, theme) ==
    LET diagram_response == IF diagram_out.ok THEN diagram_out.text
                            ELSE Join(GenericSuggestions(ideas, theme), <<NL>>)
        parsed == SelectSeq(StrippedLines(diagram_response), IsSuggestionLine)
    IN  IF parsed = <<>> THEN GenericSuggestions(ideas, theme) ELSE parsed

\* str(clusters), as far as the memory entry needs it
ClustersStr(clusters) == IdeasStr(clusters)

\* process_ideas(ideas, theme) with the outcomes of the two agent runs
process_ideas(ideas, theme, cluster_out, diagram_out) ==
    IF ideas = <<>> THEN
        Returned([error |-> <<"No ideas provided.">>, clustered_ideas |-> <<>>,
                  diagram_suggestions |-> <<>>], <<>>, 0)
    ELSE LET cluster_response == IF cluster_out.ok THEN cluster_out.text
                                 ELSE ClusterFallbackText(ideas, theme)
             clusters == Clusters(cluster_response, ideas, theme)
             diagram_suggestions == Suggestions(diagram_out, ideas, theme)
         IN  Returned([clustered_ideas |-> clusters, diagram_suggestions |-> diagram_suggestions],
                      <<[input |-> <<"Process ideas", ":", SP>> \o PyRepr(ideas)
                                   \o <<",", SP, "theme", ":", SP>> \o theme,
                         output |-> <<"Clustered", ":", SP>> \o ClustersStr(clusters)
                                    \o <<NL, "Diagrams", ":", SP>> \o PyRepr(diagram_suggestions)]>>,
                      2)

\* --- inputs of the checks ---
ClusterLine(idea, tags) == IdeaStart \o <<SP>> \o idea \o TagsMarker \o <<SP>> \o tags
ClLines ==
    { ThemeMarker \o <<SP, "agentic AI">>,
      ThemeMarker \o <<SP, "automation">>,
      ThemeMarker,
      ClusterLine(IdeaA, <<"[", "AI", ",", SP, "ops", "]">>),
      ClusterLine(IdeaB, <<"[", "generic", "]">>),
      IdeaStart \o <<SP>> \o IdeaB,
      <<"Here are the clusters", ":">> }
ClResponses == {Join(ls, <<NL>>) : ls \in SeqsUpTo(ClLines, MaxLines)}
ClOutcomes == {Ok(r) : r \in ClResponses} \cup Failures
DgResponses ==
    { <<>>,
      SuggestionMarker \o <<SP>> \o IdeaA \o <<":", SP, "A flowchart of approvals.">>,
      <<"1", ".", SP>> \o SuggestionMarker \o <<SP>> \o IdeaA \o <<":", SP, "A flowchart of approvals.">> }
DgOutcomes == {Ok(r) : r \in DgResponses} \cup Failures
IdeaInputs == {<<>>, <<IdeaA>>, <<IdeaA, IdeaB>>}

(* ------------------------------------------------------------------ *)
(* Day4 reAct Agent: agent.py                                         *)
(* ------------------------------------------------------------------ *)
\* the signs the source writes as single characters
BulletSign == "U+2022"
DiamondSign == "U+1F539"
CrossSign == "U+274C"
\* the slices of lines 32 and 43
QueryLimit == 400
ContentLimit == 150
ErrorMarker == <<CrossSign, SP, "Error fetching results", ":", SP>>

\* ReActAgent(topic), lines 15-18
NewAgent(topic) ==
    [topic |-> topic, questions |-> <<>>, answers |-> <<>>, call |-> "__init__",
     raised |-> FALSE, queries |-> <<>>, outcomes |-> <<>>]

\* line 26: the non-blank lines of the response, each stripped of "-", the bullet
\* sign and spaces at both ends
generate_questions(text) ==
    LET lines == SelectSeq(Split(Strip(text), <<NL>>), LAMBDA line : Strip(line) # <<>>)
    IN  [i \in 1..Len(lines) |-> StripChars(lines[i], {"-", BulletSign, SP})]

\* r.get('content', 'No content'): a result is a dict whose content, when the key
\* is present, is a text (Some) or null (None)
ContentOf(r) == IF "content" \in DOMAIN r THEN r.content ELSE Some(<<"No content">>)
\* one entry of summary_points, line 43
SummaryPoint(r) == <<DiamondSign, SP>> \o Strip(Take(ContentOf(r)[1], ContentLimit)) \o <<"...">>

\* lines 39-47 on the dict the search returned: the summary, or the exception
\* that slicing a null content raises
Summarize(result) ==
    LET results == IF "results" \in DOMAIN result THEN result.results ELSE <<>>
        top_results == Take(results, 2)
    IN  IF \E i \in 1..Len(top_results) : ContentOf(top_results[i]) = None
        THEN [raised |-> TRUE, error |-> <<"'NoneType' object is not subscriptable">>]
        ELSE [raised |-> FALSE,
              text |-> Join([i \in 1..Len(top_results) |-> SummaryPoint(top_results[i])], <<NL>>)]

\* the loop body as it would be with the summary built outside the try block
AnswerForUncaught(outcome) ==
    IF ~outcome.ok THEN [raised |-> FALSE, value |-> ErrorMarker \o outcome.error]
    ELSE LET s == Summarize(outcome.result)
         IN  IF s.raised THEN [raised |-> TRUE, value |-> <<>>]
             ELSE [raised |-> FALSE, value |-> s.text]

\* the loop body, lines 33-51: what is stored for a question whose search had
\* this outcome; every exception of the try block ends in the error marker
AnswerFor(outcome) ==
    IF ~outcome.ok THEN [raised |-> FALSE, value |-> ErrorMarker \o outcome.error]
    ELSE LET s == Summarize(outcome.result)
         IN  IF s.raised THEN [raised |-> FALSE, value |-> ErrorMarker \o s.error]
             ELSE [raised |-> FALSE, value |-> s.text]

\* search_answers, lines 30-53: the loop over self.questions; an exception that
\* leaves the loop body ends the call with the answers stored so far
RECURSIVE search_answers(_, _, _)
search_answers(questions, answers, outcomes) ==
    IF questions = <<>> THEN [raised |-> FALSE, answers |-> answers]
    ELSE LET a == AnswerFor(outcomes[1])
         IN  IF a.raised THEN [raised |-> TRUE, answers |-> answers]
             ELSE search_answers(Tail(questions), DictSet(answers, questions[1], a.value),
                                 Tail(outcomes))

\* --- inputs of the checks ---
Topics == {<<"Retrieval augmented generation">>}
QuestionA == <<"What is RAG?">>
QuestionB == <<"How does it work?">>
QuestionLines ==
    { <<"-", SP>> \o QuestionA,
      <<BulletSign, SP>> \o QuestionB \o <<SP>>,
      <<"-">>,
      <<SP>> }
QuestionResponses == {Join(ls, <<NL>>) : ls \in SeqsUpTo(QuestionLines, MaxQuestions)}
QuestionOutcomes == {Ok(r) : r \in QuestionResponses} \cup Failures
LongContent == [i \in 1..(ContentLimit + 1) |-> "x"]
ResultA == [content |-> Some(<<"R", "A", "G", SP>>)]
ResultNoContent == [title |-> <<"RAG">>]
ResultNull == [content |-> None]
ResultLong == [content |-> Some(LongContent)]
SearchResults ==
    { [results |-> <<ResultA>>],
      [results |-> <<ResultLong, ResultNoContent, ResultNull>>],
      [results |-> <<ResultA, ResultNull>>],
      [answer |-> <<"RAG">>] }
\* tavily.search returned the dict result, or raised the exception error
Found(result) == [ok |-> TRUE, result |-> result, error |-> <<>>]
SearchRaised(error) == [ok |-> FALSE, result |-> [results |-> <<>>], error |-> error]
TavilyOutcomes == {Found(d) : d \in SearchResults} \cup {SearchRaised(e) : e \in Errors}

\* no ReActAgent constructed
NoAgent == [call |-> "none"]

(* ------------------------------------------------------------------ *)
(* State after start-up                                               *)
(* ------------------------------------------------------------------ *)
Agents == {"brainstorm", "idea_capture", "challenge_detector", "opportunity_scorer",
           "problem_refiner"}

NoCall == [fn |-> "none"]

\* the browser sessions served by the one app process
Sessions == {"s1", "s2"}

\* app.py lines 24-41: the slots of a session that has run nothing yet
NewSessionState ==
    [metadata |-> None, prompts |-> <<>>, clustered_ideas |-> <<>>,
     diagram_suggestions |-> <<>>, challenges |-> <<>>,
     filtered_ideas |-> <<>>, ranked_opportunities |-> <<>>,
     problem_statement |-> <<>>, knowledge_plan |-> <<>>]

\* no graph run started
GraphIdle == [node |-> "idle"]

\* app.py lines 24-41, and each agent module's memory = ConversationBufferMemory()
Init ==
    /\ session_state = NewSessionState
    /\ memory = [a \in Agents |-> <<>>]
    /\ llm_calls = 0
    /\ call = NoCall
    /\ steps = 0
    /\ session = "s1"
    /\ parked = [s \in Sessions |-> NewSessionState]
    /\ appended_by = [a \in Agents |-> <<>>]
    /\ graph = GraphIdle
    /\ react_agent = NoAgent

(* ------------------------------------------------------------------ *)
(* One call of a stage function on its own                            *)
(* ------------------------------------------------------------------ *)
\* the effect of a stage call on the agent's memory and the client
Effect(agent, ret) ==
    /\ memory' = [memory EXCEPT ![agent] = @ \o ret.saved]
    /\ appended_by' = [appended_by EXCEPT ![agent] = @ \o [i \in 1..Len(ret.saved) |-> session]]
    /\ llm_calls' = llm_calls + ret.calls

CallDetectChallenges ==
    /\ call = NoCall
    /\ \E ci \in ClusterInputs, th \in Themes, out \in ChOutcomes :
         LET ret == detect_challenges(ci, th, out)
         IN  /\ call' = [fn |-> "detect_challenges", clustered_ideas |-> ci, theme |-> th,
                         out |-> out, ret |-> ret]
             /\ Effect("challenge_detector", ret)
    /\ UNCHANGED <<session_state, steps, session, parked, graph, react_agent>>

CallScoreOpportunities ==
    /\ call = NoCall
    /\ \E chs \in ChallengeInputs, th \in Themes, sv \in SurveyInputs, out \in ScOutcomes :
         LET ret == score_opportunities(chs, th, sv, out)
         IN  /\ call' = [fn |-> "score_opportunities", challenges |-> chs, theme |-> th,
                         survey_results |-> sv, out |-> out, ret |-> ret]
             /\ Effect("opportunity_scorer", ret)
    /\ UNCHANGED <<session_state, steps, session, parked, graph, react_agent>>

CallGeneratePrompts ==
    /\ call = NoCall
    /\ \E md \in MetadataInputs, search \in SearchOutcomes, out \in PrOutcomes :
         LET ret == generate_prompts(md, search, out)
         IN  /\ call' = [fn |-> "generate_prompts", metadata |-> md, search |-> search,
                         out |-> out, ret |-> ret]
             /\ Effect("brainstorm", ret)
    /\ UNCHANGED <<session_state, steps, session, parked, graph, react_agent>>

CallRefineProblemStatement ==
    /\ call = NoCall
    /\ \E opp \in OpportunityInputs, th \in Themes, out \in RfOutcomes :
         LET ret == refine_problem_statement(opp, th, out)
         IN  /\ call' = [fn |-> "refine_problem_statement", opportunity |-> opp, theme |-> th,
                         out |-> out, ret |-> ret]
             /\ Effect("problem_refiner", ret)
    /\ UNCHANGED <<session_state, steps, session, parked, graph, react_agent>>

CallProcessIdeas ==
    /\ call = NoCall
    /\ \E ideas \in IdeaInputs, th \in Themes, cl \in ClOutcomes, dg \in DgOutcomes :
         LET ret == process_ideas(ideas, th, cl, dg)
         IN  /\ call' = [fn |-> "process_ideas", ideas |-> ideas, theme |-> th,
                         out |-> cl, diagram_out |-> dg, ret |-> ret]
             /\ Effect("idea_capture", ret)
    /\ UNCHANGED <<session_state, steps, session, parked, graph, react_agent>>

NextStages ==
    \/ CallGeneratePrompts
    \/ CallProcessIdeas
    \/ CallDetectChallenges
    \/ CallScoreOpportunities
    \/ CallRefineProblemStatement

SpecStages == Init /\ [][NextStages]_vars

(* ------------------------------------------------------------------ *)
(* app.py: one form submission per step                               *)
(* ------------------------------------------------------------------ *)
\* st.session_state.metadata.get("theme", "general")
SessionTheme == GetOrGeneral(session_state.metadata[1], "theme")

\* what a handler catches: "error" in result, or an exception out of the stage
Rejected(ret) == ret.raised \/ "error" \in DOMAIN ret.value

\* the text area's default, line 70
DefaultIdeas(prompts) ==
    IF prompts # <<>>
    THEN Join([i \in 1..Len(prompts) |->
                 Strip(Replace(Split(prompts[i], SourceMarker)[1], PromptMarker, <<>>))],
              <<NL>>)
    ELSE <<>>

NonEmpty(line) == line # <<>>
\* [idea.strip() for idea in ideas_input.split("\n") if idea.strip()], line 76
IdeasOf(ideas_input) ==
    LET lines == Split(ideas_input, <<NL>>)
    IN  SelectSeq([i \in 1..Len(lines) |-> Strip(lines[i])], NonEmpty)

\* the handler made no stage call
Skipped(step) == [fn |-> "none", step |-> step]

\* --- what the forms and the services can supply in a session ---
FormInputs ==
    { [title |-> <<"Agent Framework">>, theme |-> <<"agentic AI">>, department |-> <<"Computer Science">>],
      [title |-> <<"Agent Framework">>, theme |-> <<>>, department |-> <<"Computer Science">>] }
AppSearch == Ok(<<[page |-> <<"3">>, content |-> <<"Past project">>]>>)
AppPrOutcomes == Failures \cup {Ok(<<>>)}
AppClOutcomes == Failures \cup {Ok(ThemeMarker \o <<SP, "agentic AI">>)}
AppDgOutcomes == Failures
AppChOutcomes ==
    Failures \cup {Ok(ScenarioA), Ok(FilteredMarker \o <<SP>> \o IdeaB)}
AppScOutcomes ==
    Failures \cup {Ok(Join(<<RankLine("2", IdeaB), RankLine("1", IdeaA)>>, <<NL>>)),
                   Ok(Join(<<RankLine("1", IdeaA), <<SP, SP>> \o FeasibilityMarker \o <<SP, "high">>>>, <<NL>>))}
AppRfOutcomes ==
    Failures \cup {Ok(Join(<<ProblemMarker \o <<SP, "Ops teams overspend.">>, KnowStart,
                             <<SP, SP, "-", SP, "budgets are fixed">>>>, <<NL>>))}

\* Step 1, lines 51-60
Step1Submit ==
    /\ steps < MaxSteps
    /\ steps' = steps + 1
    /\ UNCHANGED <<session, parked, graph, react_agent>>
    /\ \E form \in FormInputs, out \in AppPrOutcomes :
         IF form.title # <<>> /\ form.theme # <<>> /\ form.department # <<>>
         THEN LET metadata == get_project_metadata(form.title, form.theme, form.department, <<"id-1">>)
                  ret == generate_prompts(metadata, AppSearch, out)
              IN  /\ session_state' = [session_state EXCEPT !.metadata = Some(metadata),
                                                            !.prompts = ret.value]
                  /\ call' = [fn |-> "generate_prompts", step |-> 1, out |-> out, ret |-> ret]
                  /\ Effect("brainstorm", ret)
         ELSE /\ call' = Skipped(1)
              /\ UNCHANGED <<session_state, memory, llm_calls, appended_by>>

\* the slots Step 2 writes, lines 79-93
Step2Commit(ss, ret) ==
    IF Rejected(ret)
    THEN [ss EXCEPT !.clustered_ideas = <<>>, !.diagram_suggestions = <<>>]
    ELSE [ss EXCEPT !.clustered_ideas = ret.value.clustered_ideas,
                    !.diagram_suggestions = ret.value.diagram_suggestions]

\* Step 2, lines 74-95: the text area holds its default or what the user typed
Step2Submit ==
    /\ steps < MaxSteps
    /\ steps' = steps + 1
    /\ UNCHANGED <<session, parked, graph, react_agent>>
    /\ \E ideas_input \in {DefaultIdeas(session_state.prompts), <<>>, <<SP>>},
          cl \in AppClOutcomes, dg \in AppDgOutcomes :
         IF ideas_input # <<>> /\ session_state.metadata # None
         THEN LET ret == process_ideas(IdeasOf(ideas_input), SessionTheme, cl, dg)
              IN  /\ session_state' = Step2Commit(session_state, ret)
                  /\ call' = [fn |-> "process_ideas", step |-> 2, ideas |-> IdeasOf(ideas_input),
                              out |-> cl, ret |-> ret]
                  /\ Effect("idea_capture", ret)
         ELSE /\ call' = Skipped(2)
              /\ UNCHANGED <<session_state, memory, llm_calls, appended_by>>

\* the condition Step 3 runs under, line 115
Step3Ready(ss) == ss.clustered_ideas # <<>> /\ AnyValue(ss.clustered_ideas) /\ ss.metadata # None

\* Step 3 as it would be if a rejected result reset the challenges only
Step3CommitChallengesOnly(ss, ret) ==
    IF Rejected(ret)
    THEN [ss EXCEPT !.challenges = <<>>]
    ELSE [ss EXCEPT !.challenges = ret.value.challenges,
                    !.filtered_ideas = ret.value.filtered_ideas]

\* the slots Step 3 writes, lines 118-132
Step3Commit(ss, ret) ==
    IF Rejected(ret)
    THEN [ss EXCEPT !.challenges = <<>>, !.filtered_ideas = <<>>]
    ELSE [ss EXCEPT !.challenges = ret.value.challenges,
                    !.filtered_ideas = ret.value.filtered_ideas]

\* Step 3, lines 114-134
Step3Submit ==
    /\ steps < MaxSteps
    /\ steps' = steps + 1
    /\ UNCHANGED <<session, parked, graph, react_agent>>
    /\ \E out \in AppChOutcomes :
         IF Step3Ready(session_state)
         THEN LET ret == detect_challenges(session_state.clustered_ideas, SessionTheme, out)
              IN  /\ session_state' = Step3Commit(session_state, ret)
                  /\ call' = [fn |-> "detect_challenges", step |-> 3,
                              clustered_ideas |-> session_state.clustered_ideas,
                              out |-> out, ret |-> ret]
                  /\ Effect("challenge_detector", ret)
         ELSE /\ call' = Skipped(3)
              /\ UNCHANGED <<session_state, memory, llm_calls, appended_by>>

\* Step 4's condition as it would be without the test of the challenges slot
Step4ReadyMetadataOnly(ss) == ss.metadata # None

\* the condition Step 4 runs under, line 156
Step4Ready(ss) == ss.challenges # <<>> /\ ss.metadata # None

\* the slot Step 4 writes, lines 159-170
Step4Commit(ss, ret) ==
    IF Rejected(ret)
    THEN [ss EXCEPT !.ranked_opportunities = <<>>]
    ELSE [ss EXCEPT !.ranked_opportunities = ret.value.ranked_opportunities]

\* Step 4, lines 155-172
Step4Submit ==
    /\ steps < MaxSteps
    /\ steps' = steps + 1
    /\ UNCHANGED <<session, parked, graph, react_agent>>
    /\ \E survey_results \in {<<>>}, out \in AppScOutcomes :
         IF Step4Ready(session_state)
         THEN LET ret == score_opportunities(session_state.challenges, SessionTheme,
                                             survey_results, out)
              IN  /\ session_state' = Step4Commit(session_state, ret)
                  /\ call' = [fn |-> "score_opportunities", step |-> 4,
                              challenges |-> session_state.challenges, out |-> out, ret |-> ret]
                  /\ Effect("opportunity_scorer", ret)
         ELSE /\ call' = Skipped(4)
              /\ UNCHANGED <<session_state, memory, llm_calls, appended_by>>

\* the condition Step 5 runs under, line 189
Step5Ready(ss) == ss.ranked_opportunities # <<>> /\ ss.metadata # None

\* the slots Step 5 writes, lines 193-207
Step5Commit(ss, ret) ==
    IF Rejected(ret)
    THEN [ss EXCEPT !.problem_statement = <<>>, !.knowledge_plan = <<>>]
    ELSE [ss EXCEPT !.problem_statement = ret.value.problem_statement,
                    !.knowledge_plan = ret.value.knowledge_plan]

\* Step 5, lines 188-209
Step5Submit ==
    /\ steps < MaxSteps
    /\ steps' = steps + 1
    /\ UNCHANGED <<session, parked, graph, react_agent>>
    /\ \E out \in AppRfOutcomes :
         IF Step5Ready(session_state)
         THEN LET top_opportunity == session_state.ranked_opportunities[1]
                  ret == refine_problem_statement(top_opportunity, SessionTheme, out)
              IN  /\ session_state' = Step5Commit(session_state, ret)
                  /\ call' = [fn |-> "refine_problem_statement", step |-> 5,
                              opportunity |-> top_opportunity, out |-> out, ret |-> ret]
                  /\ Effect("problem_refiner", ret)
         ELSE /\ call' = Skipped(5)
              /\ UNCHANGED <<session_state, memory, llm_calls, appended_by>>

NextApp ==
    \/ Step1Submit
    \/ Step2Submit
    \/ Step3Submit
    \/ Step4Submit
    \/ Step5Submit

SpecApp == Init /\ [][NextApp]_vars

(* ------------------------------------------------------------------ *)
(* app.py served to several browser sessions by one process           *)
(* ------------------------------------------------------------------ *)
\* "Show Conversation Memory", lines 225-240: the button loads the module-level
\* memory of each agent module and writes it to the page of the session
ShowConversationMemory ==
    /\ steps < MaxSteps
    /\ steps' = steps + 1
    /\ call' = [fn |-> "show_memory", step |-> 6,
                shown |-> [a \in Agents |-> memory[a]],
                shown_by |-> [a \in Agents |-> appended_by[a]]]
    /\ UNCHANGED <<session_state, memory, llm_calls, session, parked, appended_by, graph, react_agent>>

\* the script run of another session starts: st.session_state is per session,
\* the imported agent modules (and their memory objects) are per process
SwitchSession ==
    /\ \E s \in Sessions \ {session} :
         /\ session' = s
         /\ parked' = [parked EXCEPT ![session] = session_state]
         /\ session_state' = parked[s]
    /\ call' = Skipped(0)
    /\ UNCHANGED <<memory, llm_calls, steps, appended_by, graph, react_agent>>

NextSessions ==
    \/ Step1Submit
    \/ Step2Submit
    \/ Step3Submit
    \/ Step4Submit
    \/ Step5Submit
    \/ ShowConversationMemory
    \/ SwitchSession

SpecSessions == Init /\ [][NextSessions]_vars

(* ------------------------------------------------------------------ *)
(* Day7/interview_intelligence_evaluator2.0: the interview-evaluation *)
(* graph  transcription -> analyze_softskills -> knowledge_validation *)
(* -> report  of langgraph/graph_flow.py and its agents               *)
(* ------------------------------------------------------------------ *)
\* the variables of the hackathon app, which a graph run leaves alone
app_vars == <<session_state, memory, llm_calls, call, steps, session, parked, appended_by>>

\* state.get(key): None when the key is absent
StateGet(state, key) == IF key \in DOMAIN state THEN state[key] ELSE None

\* an optional text inside an f-string: None is formatted as the word None
FormatValue(opt) == IF opt = None THEN <<"None">> ELSE opt[1]

\* what an agent function or a node did: its value (or the exception it
\* raised) and the generate_content calls it made, with the inputs they carried
GReturned(value, gen) == [raised |-> FALSE, value |-> value, gen |-> gen]
GRaised(error, gen) == [raised |-> TRUE, error |-> error, gen |-> gen]

\* response.text of model.generate_content(prompt), or the exception out of it
Generate(agent, prompt, inputs, out) ==
    LET made == <<[agent |-> agent, prompt |-> prompt, inputs |-> inputs]>>
    IN  IF out.ok THEN GReturned(out.text, made) ELSE GRaised(out.text, made)

\* agents/transcription_agent.py is not among the sources; transcribe_audio
\* follows the stage contract of the specification: a missing input is a
\* MissingDependencyError, otherwise the transcript of the recording is returned
transcribe_audio(audio_path, out) ==
    IF audio_path = None THEN GRaised(<<"MissingDependencyError">>, <<>>)
    ELSE GReturned(out.text, <<>>)

\* softskill_agent.py lines 3-16
analyze_soft_skills(transcript, out) ==
    Generate("analyze_soft_skills",
             <<"Analyze this interview transcript for soft skills like", ":", NL,
               "Transcript", ":", NL>> \o FormatValue(transcript) \o <<NL>>,
             <<transcript>>, out)

\* knowledge_agent.py lines 8-24: the knowledge base file is there or not
create_vector_store(kb) ==
    IF kb = "missing"
    THEN GRaised(<<"Missing knowledge base", ":", SP, "interview_prep.txt">>, <<>>)
    ELSE GReturned(<<"interview basics">>, <<>>)

\* knowledge_agent.py lines 26-39: context is the text of the retrieved documents
validate_knowledge(transcript, vectorstore, out) ==
    Generate("validate_knowledge",
             <<"You are a domain expert.", NL, "Context", ":", NL>> \o vectorstore
               \o <<NL, "Transcript", ":", NL>> \o FormatValue(transcript) \o <<NL>>,
             <<transcript>>, out)

\* report_agent.py lines 3-22
generate_report(transcript, softskills, knowledge_eval, out) ==
    Generate("generate_report",
             <<"Generate a structured interview evaluation report", NL, "Transcript", ":", NL>>
               \o FormatValue(transcript) \o <<NL, "Soft Skills Analysis", ":", NL>>
               \o FormatValue(softskills) \o <<NL, "Knowledge Evaluation", ":", NL>>
               \o FormatValue(knowledge_eval) \o <<NL>>,
             <<transcript, softskills, knowledge_eval>>, out)

\* a node's return value is the state update {slot: value}
NodeUpdate(slot, r) == IF r.raised THEN r ELSE GReturned(slot :> Some(r.value), r.gen)

\* graph_flow.py lines 19-22
transcription_node(state, out) ==
    NodeUpdate("transcript", transcribe_audio(StateGet(state, "audio_path"), out))

\* the node as it would be if it returned its analysis under the transcript key
softskill_nodeIntoTranscript(state, out) ==
    NodeUpdate("transcript", analyze_soft_skills(StateGet(state, "transcript"), out))

\* graph_flow.py lines 26-29
softskill_node(state, out) ==
    NodeUpdate("softskills", analyze_soft_skills(StateGet(state, "transcript"), out))

\* graph_flow.py lines 33-37
knowledge_node(state, kb, out) ==
    LET vectorstore == create_vector_store(kb)
    IN  IF vectorstore.raised THEN vectorstore
        ELSE NodeUpdate("knowledge_eval",
                        validate_knowledge(StateGet(state, "transcript"), vectorstore.value, out))

\* graph_flow.py lines 41-46
report_node(state, out) ==
    NodeUpdate("final_report",
               generate_report(StateGet(state, "transcript"), StateGet(state, "softskills"),
                               StateGet(state, "knowledge_eval"), out))

\* build_agent_graph, lines 58-62: the entry point, the edges, the finish point
EntryPoint == "transcription"
\* the edges as they would be with analyze_softskills wired straight to report
NextNodeSkipsKnowledge(node) ==
    CASE node = "transcription" -> "analyze_softskills"
      [] node = "analyze_softskills" -> "report"
      [] node = "knowledge_validation" -> "report"
      [] node = "report" -> "END"
NextNode(node) == CASE node = "transcription" -> "analyze_softskills"
                    [] node = "analyze_softskills" -> "knowledge_validation"
                    [] node = "knowledge_validation" -> "report"
                    [] node = "report" -> "END"

\* --- what a run can be given ---
Transcripts == {<<"I led the migration">>, <<"um, well, I think">>, <<>>}
AudioOutcomes == {Ok(t) : t \in Transcripts}
GenOutcomes == {Ok(<<"confident, little hesitation">>), Ok(<<"heavy use of jargon">>), Ok(<<>>)}
               \cup Failures
KnowledgeBases == {"present", "missing"}
\* initial_state: any of the slots may be left out
InitialStates ==
    { [audio_path |-> Some(<<"interview.wav">>)],
      [audio_path |-> Some(<<"interview.wav">>), transcript |-> None, softskills |-> None,
       knowledge_eval |-> None, final_report |-> None],
      [audio_path |-> None],
      [transcript |-> Some(<<"I led the migration">>)],
      [audio_path |-> Some(<<"interview.wav">>), transcript |-> Some(<<"I led the migration">>)],
      [softskills |-> Some(<<"hesitant">>), knowledge_eval |-> Some(<<"solid">>)],
      [audio_path |-> Some(<<"interview.wav">>), transcript |-> Some(<<"um, well, I think">>),
       softskills |-> Some(<<"hesitant">>), knowledge_eval |-> Some(<<"solid">>)],
      <<>> }

\* graph.invoke(initial_state)
Invoke ==
    /\ graph = GraphIdle
    /\ \E initial_state \in InitialStates :
         graph' = [node |-> EntryPoint, state |-> initial_state, gen |-> <<>>, ran |-> <<>>]
    /\ UNCHANGED <<app_vars, react_agent>>

\* the runner merges the node's update into the state and follows the edge;
\* an exception out of a node ends the run
Advance(node, r) ==
    IF r.raised
    THEN [node |-> "aborted", state |-> graph.state, gen |-> graph.gen \o r.gen,
          ran |-> Append(graph.ran, node), error |-> r.error]
    ELSE [node |-> NextNode(node), state |-> r.value @@ graph.state, gen |-> graph.gen \o r.gen,
          ran |-> Append(graph.ran, node)]

RunTranscription ==
    /\ graph.node = "transcription"
    /\ \E out \in AudioOutcomes :
         graph' = Advance("transcription", transcription_node(graph.state, out))
    /\ UNCHANGED <<app_vars, react_agent>>

RunSoftskill ==
    /\ graph.node = "analyze_softskills"
    /\ \E out \in GenOutcomes :
         graph' = Advance("analyze_softskills", softskill_node(graph.state, out))
    /\ UNCHANGED <<app_vars, react_agent>>

RunKnowledge ==
    /\ graph.node = "knowledge_validation"
    /\ \E kb \in KnowledgeBases, out \in GenOutcomes :
         graph' = Advance("knowledge_validation", knowledge_node(graph.state, kb, out))
    /\ UNCHANGED <<app_vars, react_agent>>

RunReport ==
    /\ graph.node = "report"
    /\ \E out \in GenOutcomes :
         graph' = Advance("report", report_node(graph.state, out))
    /\ UNCHANGED <<app_vars, react_agent>>

NextGraph ==
    \/ Invoke
    \/ RunTranscription
    \/ RunSoftskill
    \/ RunKnowledge
    \/ RunReport

SpecGraph == Init /\ [][NextGraph]_vars

\* --- one call of a node function on a state ---
NodeCalled(fn, state, r) == [node |-> "called", fn |-> fn, state |-> state, ret |-> r]

CallTranscriptionNode ==
    /\ graph = GraphIdle
    /\ \E state \in InitialStates, out \in AudioOutcomes :
         graph' = NodeCalled("transcription_node", state, transcription_node(state, out))
    /\ UNCHANGED <<app_vars, react_agent>>

CallSoftskillNode ==
    /\ graph = GraphIdle
    /\ \E state \in InitialStates, out \in GenOutcomes :
         graph' = NodeCalled("softskill_node", state, softskill_node(state, out))
    /\ UNCHANGED <<app_vars, react_agent>>

CallKnowledgeNode ==
    /\ graph = GraphIdle
    /\ \E state \in InitialStates, kb \in KnowledgeBases, out \in GenOutcomes :
         graph' = NodeCalled("knowledge_node", state, knowledge_node(state, kb, out))
    /\ UNCHANGED <<app_vars, react_agent>>

CallReportNode ==
    /\ graph = GraphIdle
    /\ \E state \in InitialStates, out \in GenOutcomes :
         graph' = NodeCalled("report_node", state, report_node(state, out))
    /\ UNCHANGED <<app_vars, react_agent>>

NextNodes ==
    \/ CallTranscriptionNode
    \/ CallSoftskillNode
    \/ CallKnowledgeNode
    \/ CallReportNode

SpecNodes == Init /\ [][NextNodes]_vars

(* ------------------------------------------------------------------ *)
(* Day4 reAct Agent: one press of the report button, app.py 24-36     *)
(* ------------------------------------------------------------------ *)
\* agent = ReActAgent(topic), app.py line 27: every press makes a new object
ConstructAgent ==
    /\ \E topic \in Topics : react_agent' = NewAgent(topic)
    /\ UNCHANGED <<app_vars, graph>>

\* agent.generate_questions(), app.py line 28 and agent.py lines 21-27: a failed
\* generation raises out of the method and ends the script run
GenerateQuestions ==
    /\ react_agent.call = "__init__"
    /\ \E out \in QuestionOutcomes :
         react_agent' = [react_agent EXCEPT !.call = "generate_questions",
                                !.raised = ~out.ok,
                                !.questions = IF out.ok THEN generate_questions(out.text) ELSE @]
    /\ UNCHANGED <<app_vars, graph>>

\* agent.search_answers(), app.py line 36 and agent.py lines 30-53, with the
\* outcome of each question's search
SearchAnswers ==
    /\ react_agent.call = "generate_questions"
    /\ ~react_agent.raised
    /\ \E outcomes \in [1..Len(react_agent.questions) -> TavilyOutcomes] :
         LET ret == search_answers(react_agent.questions, react_agent.answers, outcomes)
         IN  react_agent' = [react_agent EXCEPT !.call = "search_answers",
                                    !.raised = ret.raised,
                                    !.answers = ret.answers,
                                    !.queries = [i \in 1..Len(react_agent.questions) |->
                                                   Take(react_agent.questions[i], QueryLimit)],
                                    !.outcomes = outcomes]
    /\ UNCHANGED <<app_vars, graph>>

NextReAct ==
    \/ ConstructAgent
    \/ GenerateQuestions
    \/ SearchAnswers

SpecReAct == Init /\ [][NextReAct]_vars

(* ------------------------------------------------------------------ *)
(* Properties                                                         *)
(* ------------------------------------------------------------------ *)
IdeaSet(records) == {records[i].idea : i \in 1..Len(records)}
StageFns == {"generate_prompts", "process_ideas", "detect_challenges", "score_opportunities",
             "refine_problem_statement"}
AgentOf(fn) == CASE fn = "generate_prompts" -> "brainstorm"
                 [] fn = "process_ideas" -> "idea_capture"
                 [] fn = "detect_challenges" -> "challenge_detector"
                 [] fn = "score_opportunities" -> "opportunity_scorer"
                 [] fn = "refine_problem_statement" -> "problem_refiner"
\* the stage reached its completion call, which returned a text / which failed
Completed == call.fn \in StageFns /\ call.ret.calls >= 1 /\ call.out.ok
CallFailed == call.fn \in StageFns /\ call.ret.calls >= 1 /\ ~call.out.ok
DetectReturned == call.fn = "detect_challenges" /\ ~call.ret.raised
ScoreReturned == call.fn = "score_opportunities" /\ ~call.ret.raised
IsRankLine(line) == StartsWith(line, RankStart)
IsIdeaLine(line) == StartsWith(line, IdeaStart)
\* the record-start lines of the response of the call
RankLinesOf(text) == SelectSeq(StrippedLines(text), IsRankLine)
LesserOf(a, b) == IF a < b THEN a ELSE b

\* C1: after detect_challenges returns, the ideas of 'challenges' and of
\* 'filtered_ideas' together are the input ideas, and no idea is in both.
C1_EveryIdeaRetainedOrFiltered ==
    DetectReturned =>
        LET input == IdeaSet(AllIdeas(call.clustered_ideas))
            kept == IdeaSet(call.ret.value.challenges)
            dropped == IdeaSet(call.ret.value.filtered_ideas)
        IN  kept \cup dropped = input /\ kept \cap dropped = {}

\* C2: when a successful completion yields n < 3 records, the committed output
\* has exactly 3: the n parsed records, then 3-n generic ones. For
\* generate_prompts the records are the "Prompt:" lines; for detect_challenges
\* the retained challenges, so no call commits fewer than 3.
C2_PaddedToExactlyThree ==
    /\ (call.fn = "generate_prompts" /\ Completed) =>
          LET parsed == SelectSeq(StrippedLines(call.out.text), IsPromptLine)
              n == Len(parsed)
              prompts == call.ret.value
          IN  n < 3 => /\ Len(prompts) = 3
                       /\ SubSeq(prompts, 1, n) = parsed
                       /\ \A i \in (n + 1)..3 : Contains(prompts[i], <<"Generic">>)
    /\ (DetectReturned /\ Completed) => Len(call.ret.value.challenges) >= 3

\* C3: score_opportunities commits at most 3 records, and they are the first
\* (up to) three record-start lines of the response, in response order.
C3_AtMostThreeInResponseOrder ==
    ScoreReturned =>
        LET ranked == call.ret.value.ranked_opportunities
            starts == IF Completed THEN RankLinesOf(call.out.text) ELSE <<>>
        IN  /\ Len(ranked) <= 3
            /\ Len(ranked) = LesserOf(3, Len(starts))
            /\ \A i \in 1..Len(ranked) :
                 StartsWith(starts[i],
                            <<"-", SP>> \o ranked[i].rank \o <<":", SP>> \o ranked[i].idea)
\* a response of four record-start lines, not in rank order, was cut to three
W_C3_FourRanksCutToThree ==
    /\ ScoreReturned /\ Completed
    /\ Len(RankLinesOf(call.out.text)) = 4
    /\ Len(call.ret.value.ranked_opportunities) = 3
    /\ call.ret.value.ranked_opportunities[1].rank = <<"Rank", SP, "2">>
    /\ call.ret.value.ranked_opportunities[2].rank = <<"Rank", SP, "1">>

\* C4: the ranks of the committed records are the integers 1, 2, 3, ... in
\* order, so the record at index 0 has rank 1.
C4_RanksCountUpFromOne ==
    ScoreReturned =>
        \A i \in 1..Len(call.ret.value.ranked_opportunities) :
            LET rank == call.ret.value.ranked_opportunities[i].rank
            IN  Len(rank) = 3 /\ rank[1] = "Rank" /\ IsInt(<<rank[3]>>) /\ PyInt(<<rank[3]>>) = i

\* the stage was called with its required input absent or empty
MissingInput ==
    \/ call.fn = "detect_challenges" /\ AllIdeas(call.clustered_ideas) = <<>>
    \/ call.fn = "score_opportunities" /\ call.challenges = <<>>
    \/ call.fn = "refine_problem_statement"
       /\ ("idea" \notin DOMAIN call.opportunity \/ call.opportunity.idea = <<>>)
    \/ call.fn = "process_ideas" /\ call.ideas = <<>>
\* the output slots of the value a stage returned are all empty
EmptyOutputs ==
    \A k \in DOMAIN call.ret.value \ {"error"} : call.ret.value[k] = <<>>

C6_ScenarioA ==
    (DetectReturned /\ call.ret.calls = 1 /\ call.out = Ok(ScenarioA)) =>
        /\ call.ret.value.challenges =
             <<[idea |-> <<"Cut costs">>, pain_point |-> <<"high spend">>,
                users_stakeholders |-> <<"ops">>, importance |-> <<"saves money">>]>>
        /\ call.ret.value.filtered_ideas =
             <<[idea |-> <<"Vague idea">>, reason |-> <<"too generic">>]>>

C8_ScoringRunsAfterFailedDetection ==
    (call.fn = "detect_challenges" /\ call.step = 3 /\ ~call.out.ok) =>
        Step4Ready(session_state)

\* C9: every execution of a stage that reached its completion call adds
\* exactly one entry to the stage's history, and the entry of a failed call
\* records the exception text.
C9_EveryExecutionLeavesOneEntry ==
    (call.fn \in StageFns /\ call.ret.calls >= 1) =>
        /\ Len(memory[AgentOf(call.fn)]) = 1
        /\ ~call.out.ok => Contains(memory[AgentOf(call.fn)][1].output, call.out.text)

\* C10: with every record-start line well formed, a malformed numeric field
\* line costs only that field: the parse does not fail and every record of
\* the response is still emitted (the first three are committed).
C10_MalformedScoreDropsOnlyField ==
    (call.fn = "score_opportunities" /\ Completed
       /\ \A i \in 1..Len(RankLinesOf(call.out.text)) :
            Contains(RankLinesOf(call.out.text)[i], <<":">>)) =>
        /\ ~call.ret.raised
        /\ Len(call.ret.value.ranked_opportunities)
             = LesserOf(3, Len(RankLinesOf(call.out.text)))

\* C11: no single malformed line makes the parse of challenge detection,
\* scoring or clustering fail: for every response text the stage returns
\* the records of its well-formed lines instead of raising.
C11_MalformedLineNeverFailsParse ==
    (Completed /\ call.fn \in {"detect_challenges", "score_opportunities", "process_ideas"}) =>
        ~call.ret.raised

\* C13: no state is shared across sessions: the conversation memory a session
\* is shown holds only entries appended by that session's own stage
\* executions.
C13_ShownMemoryIsOwn ==
    call.fn = "show_memory" =>
        \A a \in Agents : \A i \in 1..Len(call.shown_by[a]) : call.shown_by[a][i] = session

\* the step's submission wrote slots a and b together: both from the result of
\* the stage call it made, or both reset to empty; any other step left them alone
PairWritten(step, a, b) ==
    IF call'.step = step
    THEN IF call'.fn = "none"
         THEN session_state'[a] = session_state[a] /\ session_state'[b] = session_state[b]
         ELSE \/ /\ ~call'.ret.raised
                 /\ session_state'[a] = call'.ret.value[a]
                 /\ session_state'[b] = call'.ret.value[b]
              \/ session_state'[a] = <<>> /\ session_state'[b] = <<>>
    ELSE session_state'[a] = session_state[a] /\ session_state'[b] = session_state[b]

\* C14: a stage's write to the session state is atomic: every submission of
\* Step 2, 3 or 5 sets the step's two output slots from the same stage result
\* or resets both to empty, Step 4 does so with its one slot, and no other
\* step touches them.
C14_SlotPairsWrittenTogether ==
    [][ /\ PairWritten(2, "clustered_ideas", "diagram_suggestions")
        /\ PairWritten(3, "challenges", "filtered_ideas")
        /\ PairWritten(4, "ranked_opportunities", "ranked_opportunities")
        /\ PairWritten(5, "problem_statement", "knowledge_plan") ]_vars
\* Step 3 was submitted again and rejected after an earlier submission had
\* committed a filtered idea: both slots are empty again
W_C14_RejectedAfterCommit ==
    /\ call.fn = "detect_challenges"
    /\ call.step = 3
    /\ Rejected(call.ret)
    /\ Len(memory["challenge_detector"]) >= 1
    /\ session_state.filtered_ideas = <<>>

\* C15: in the interview-evaluation graph a failure of the generation call
\* inside a node does not abort the run: the remaining nodes still execute
\* and the run reaches the finish point.
C15_GenerationFailureDoesNotAbort ==
    graph.node = "aborted" => graph.error \notin Errors

\* the slot a node requires
RequiredSlot(fn) == CASE fn = "transcription_node" -> "audio_path"
                      [] fn = "softskill_node" -> "transcript"
                      [] fn = "knowledge_node" -> "transcript"
                      [] fn = "report_node" -> "transcript"

\* C16: a node run on a state that lacks the slot it requires fails with
\* MissingDependencyError before any generation call, and no node hands the
\* model a missing (None) input.
C16_MissingSlotFailsFast ==
    graph.node = "called" =>
        /\ StateGet(graph.state, RequiredSlot(graph.fn)) = None =>
             /\ graph.ret.raised
             /\ graph.ret.error = <<"MissingDependencyError">>
             /\ graph.ret.gen = <<>>
        /\ \A i \in 1..Len(graph.ret.gen) :
             \A j \in 1..Len(graph.ret.gen[i].inputs) : graph.ret.gen[i].inputs[j] # None

\* C17: in every record score_opportunities commits, the feasibility, impact
\* and empathy values it carries are integers in 0..100 and its total_score
\* (held in tenths) is in 0..100.
C17_ScoresWithinRange ==
    ScoreReturned =>
        \A i \in 1..Len(call.ret.value.ranked_opportunities) :
            LET rec == call.ret.value.ranked_opportunities[i]
            IN  /\ \A f \in {"feasibility", "impact", "empathy"} \cap DOMAIN rec :
                     rec[f] \in 0..100
                /\ "total_score" \in DOMAIN rec => rec.total_score \in 0..1000

\* C18: for every metadata and every completion outcome generate_prompts
\* returns between 3 and 5 prompts, each starting with 'Prompt:'.
C18_ThreeToFivePrompts ==
    call.fn = "generate_prompts" =>
        /\ ~call.ret.raised
        /\ Len(call.ret.value) \in 3..5
        /\ \A i \in 1..Len(call.ret.value) : StartsWith(call.ret.value[i], PromptMarker)

\* C19: an upstream error marker is treated as empty input: when the prompts
\* slot holds the error marker of generate_prompts, the default idea list of
\* Step 2 derived from it is empty, and no idea handed to process_ideas is
\* the marker text.
C19_ErrorMarkerYieldsNoIdea ==
    /\ session_state.prompts = ErrorPrompts =>
         IdeasOf(DefaultIdeas(session_state.prompts)) = <<>>
    /\ (call.fn = "process_ideas" /\ call.step = 2) =>
         \A i \in 1..Len(call.ideas) : ~StartsWith(call.ideas[i], <<"Error", ":">>)

\* the '- Idea:' lines of a response
IdeaLinesOf(text) == SelectSeq(StrippedLines(text), IsIdeaLine)

\* C20: each record-start line of the response yields exactly one record:
\* detect_challenges returns as many challenges as the response has
\* '- Idea:' lines, score_opportunities parses as many records as it has
\* '- Rank' lines (of which the first three are returned), a start line
\* with an empty remainder included.
C20_OneRecordPerStartLine ==
    /\ (DetectReturned /\ Completed) =>
          Len(call.ret.value.challenges) = Len(IdeaLinesOf(call.out.text))
    /\ (ScoreReturned /\ Completed) =>
          Len(call.ret.value.ranked_opportunities)
            = LesserOf(3, Len(RankLinesOf(call.out.text)))

\* the text of a line after the first occurrence of marker
Remainder(line, marker) == SubSeq(line, IndexOf(line, marker) + Len(marker), Len(line))

\* C21: the idea of every parsed record is the whole remainder of a
\* record-start line after its marker ('- Idea:' / '- Rank N:'), trimmed,
\* also when the remainder holds a colon or 'Idea:'.
C21_IdeaIsWholeRemainder ==
    /\ (DetectReturned /\ Completed) =>
         \A i \in 1..Len(call.ret.value.challenges) :
            \E j \in 1..Len(IdeaLinesOf(call.out.text)) :
               call.ret.value.challenges[i].idea
                 = Strip(Remainder(IdeaLinesOf(call.out.text)[j], IdeaMarker))
    /\ (ScoreReturned /\ Completed) =>
         \A i \in 1..Len(call.ret.value.ranked_opportunities) :
            \E j \in 1..Len(RankLinesOf(call.out.text)) :
               call.ret.value.ranked_opportunities[i].idea
                 = Strip(Remainder(RankLinesOf(call.out.text)[j], <<":">>))

\* a line that starts with one of the field markers
IsFieldLine(line) ==
    \E marker \in {PainPointMarker, StakeholdersMarker, ImportanceMarker, FeasibilityMarker,
                   ImpactMarker, EmpathyMarker, TotalScoreMarker} : StartsWith(line, marker)
\* a record-start line of the stage's parser
IsStartLine(line, fn) == IF fn = "detect_challenges" THEN IsIdeaLine(line) ELSE IsRankLine(line)

\* the lines without the field-marker lines that come before the first record-start line
RECURSIVE DropLeadingFields(_, _)
DropLeadingFields(lines, fn) ==
    IF lines = <<>> THEN <<>>
    ELSE IF IsStartLine(lines[1], fn) THEN lines
    ELSE IF IsFieldLine(lines[1]) THEN DropLeadingFields(Tail(lines), fn)
    ELSE <<lines[1]>> \o DropLeadingFields(Tail(lines), fn)

\* two stage results agree: both raised, or both returned the same value
SameResult(r1, r2) == r1.raised = r2.raised /\ (~r1.raised => r1.value = r2.value)

\* C22: a field-marker line before any record-start line is ignored: the
\* stage returns what it returns for the response without those lines (no
\* record made, no field set on a later record, no error raised).
C22_FieldBeforeRecordIgnored ==
    /\ (Completed /\ call.fn = "detect_challenges") =>
         SameResult(call.ret,
                    detect_challenges(call.clustered_ideas, call.theme,
                        Ok(Join(DropLeadingFields(StrippedLines(call.out.text), call.fn), <<NL>>))))
    /\ (Completed /\ call.fn = "score_opportunities") =>
         SameResult(call.ret,
                    score_opportunities(call.challenges, call.theme, call.survey_results,
                        Ok(Join(DropLeadingFields(StrippedLines(call.out.text), call.fn), <<NL>>))))
\* a malformed 'Feasibility:' line came first, a record-start line later, and
\* the stage returned the record
W_C22_MalformedFieldFirst ==
    /\ Completed
    /\ call.fn = "score_opportunities"
    /\ StartsWith(StrippedLines(call.out.text)[1], FeasibilityMarker \o <<SP, "high">>)
    /\ Len(RankLinesOf(call.out.text)) = 1
    /\ ~call.ret.raised
    /\ Len(call.ret.value.ranked_opportunities) = 1

\* C23: in the app a stage is called only when the slot it reads is populated:
\* detect_challenges only with metadata set and a non-empty cluster,
\* score_opportunities only with challenges non-empty, refine_problem_statement
\* only with ranked_opportunities non-empty; a submission made otherwise makes
\* no completion call and changes no slot.
C23_StageCalledOnlyWhenInputPopulated ==
    [][ /\ call'.fn = "detect_challenges" =>
             /\ session_state.metadata # None
             /\ \E i \in 1..Len(session_state.clustered_ideas) :
                  session_state.clustered_ideas[i].value # <<>>
        /\ call'.fn = "score_opportunities" => session_state.challenges # <<>>
        /\ call'.fn = "refine_problem_statement" => session_state.ranked_opportunities # <<>>
        /\ (call'.fn = "none" /\ call'.step \in {3, 4, 5}) =>
             llm_calls' = llm_calls /\ session_state' = session_state ]_vars
\* Step 4 was submitted in a session whose Step 3 had left no challenge: no call
W_C23_Step4WithoutChallenges ==
    /\ call = Skipped(4)
    /\ session_state.clustered_ideas # <<>>
    /\ session_state.challenges = <<>>
    /\ llm_calls >= 3

\* the order the claim gives the nodes
NodeOrder == <<"transcription", "analyze_softskills", "knowledge_validation", "report">>

\* C24: the graph has the entry transcription and the finish point report and
\* no cycle, and a run executes its nodes one at a time in the order
\* transcription, analyze_softskills, knowledge_validation, report, each once;
\* a run in which no node failed ends with all four run and final_report set.
C24_NodesRunOnceInOrder ==
    /\ EntryPoint = NodeOrder[1]
    /\ \A i \in 1..3 : NextNode(NodeOrder[i]) = NodeOrder[i + 1]
    /\ NextNode(NodeOrder[4]) = "END"
    /\ graph.node # "idle" =>
         /\ graph.ran = SubSeq(NodeOrder, 1, Len(graph.ran))
         /\ graph.node \notin {"END", "aborted"} => graph.node = NodeOrder[Len(graph.ran) + 1]
         /\ graph.node = "END" =>
              /\ graph.ran = NodeOrder
              /\ StateGet(graph.state, "final_report") # None
\* a run reached the finish point after three generation calls
W_C24_RunCompleted ==
    /\ graph.node = "END"
    /\ Len(graph.gen) = 3
    /\ StateGet(graph.state, "transcript") = Some(<<"I led the migration">>)

\* the slots of GraphState and the one each node declares as its output
GraphSlots == {"audio_path", "transcript", "softskills", "knowledge_eval", "final_report"}
OutputSlot(node) == CASE node = "transcription" -> "transcript"
                      [] node = "analyze_softskills" -> "softskills"
                      [] node = "knowledge_validation" -> "knowledge_eval"
                      [] node = "report" -> "final_report"

\* C25: a node of the graph writes only its own output slot: the step of
\* transcription changes only transcript, of analyze_softskills only
\* softskills, of knowledge_validation only knowledge_eval, of report only
\* final_report; every other slot is as it was, present or absent.
C25_NodeWritesOnlyOwnSlot ==
    [][ graph.node \in {NodeOrder[i] : i \in 1..4} =>
          \A slot \in GraphSlots \ {OutputSlot(graph.node)} :
             /\ slot \in DOMAIN graph'.state <=> slot \in DOMAIN graph.state
             /\ StateGet(graph'.state, slot) = StateGet(graph.state, slot) ]_vars
\* the report node ran on a state in which the three earlier nodes' slots were set
W_C25_ReportWritten ==
    /\ graph.node = "END"
    /\ StateGet(graph.state, "final_report") = Some(<<"heavy use of jargon">>)
    /\ StateGet(graph.state, "softskills") = Some(<<"confident, little hesitation">>)
    /\ StateGet(graph.state, "knowledge_eval") = Some(<<>>)

\* the number of idea records over all the clusters of a parse
RECURSIVE RecordCount(_)
RecordCount(clusters) ==
    IF clusters = <<>> THEN 0 ELSE Len(clusters[1].value) + RecordCount(Tail(clusters))

C27_DownstreamImpliesUpstream ==
    /\ session_state.ranked_opportunities # <<>> => session_state.challenges # <<>>
    /\ session_state.challenges # <<>> => session_state.clustered_ideas # <<>>
    /\ session_state.problem_statement # <<>> => session_state.ranked_opportunities # <<>>

\* the records a cluster parse owes: one per "- Idea:" line that follows a
\* "Theme:" header, filed under the most recent header's theme
RECURSIVE OwedRecords(_, _)
OwedRecords(lines, theme) ==
    IF lines = <<>> THEN <<>>
    ELSE IF StartsWith(lines[1], ThemeMarker)
         THEN OwedRecords(Tail(lines), Some(Strip(Replace(lines[1], ThemeMarker, <<>>))))
    ELSE IF StartsWith(lines[1], IdeaStart) /\ theme # None
         THEN <<[theme |-> theme[1], line |-> lines[1]]>> \o OwedRecords(Tail(lines), theme)
    ELSE OwedRecords(Tail(lines), theme)
\* the records of the clusters whose theme is t
RecordsUnder(clusters, t) ==
    IF \E i \in 1..Len(clusters) : clusters[i].key = t THEN DictGet(clusters, t) ELSE <<>>
OwedUnder(owed, t) == SelectSeq(owed, LAMBDA o : o.theme = t)

\* C28: the cluster parser loses no idea: every "- Idea:" line that follows a
\* "Theme:" header is exactly one record under the most recent header's theme,
\* also when a theme name occurs in more than one header or the header's theme
\* is empty.
C28_ClusterParserLosesNoIdea ==
    (call.fn = "process_ideas" /\ call.ideas # <<>> /\ call.out.ok) =>
        LET owed == OwedRecords(StrippedLines(call.out.text), None)
            clusters == ClParse(call.out.text)
        IN  \A o \in {owed[i] : i \in 1..Len(owed)} :
               Len(RecordsUnder(clusters, o.theme)) = Len(OwedUnder(owed, o.theme))

\* a section header line and the list it names; a bullet line is a "- ..." line
\* that is not a header
SectionOf(line) == IF StartsWith(line, KnowStart) THEN Some("what_we_know")
                   ELSE IF StartsWith(line, LearnStart) THEN Some("what_we_need_to_learn")
                   ELSE None
IsBullet(line) == StartsWith(line, BulletStart) /\ SectionOf(line) = None
\* the point a bullet line is stored as, line 87
PointOf(line) == Strip(Replace(line, BulletStart, <<>>))
\* the bullet lines, in response order, whose most recent section header names sec
RECURSIVE BulletsUnder(_, _, _)
BulletsUnder(lines, sec, current) ==
    IF lines = <<>> THEN <<>>
    ELSE IF SectionOf(lines[1]) # None THEN BulletsUnder(Tail(lines), sec, SectionOf(lines[1]))
    ELSE IF IsBullet(lines[1]) /\ current = Some(sec)
         THEN <<PointOf(lines[1])>> \o BulletsUnder(Tail(lines), sec, current)
    ELSE BulletsUnder(Tail(lines), sec, current)

\* C30: the refine parser appends every bullet line, in response order, to
\* exactly the list of the most recently seen section header; bullets before
\* the first header are in neither list, and header lines are never points.
C30_BulletsFiledUnderLatestHeader ==
    (call.fn = "refine_problem_statement" /\ call.ret.calls = 1 /\ call.out.ok) =>
        \A sec \in {"what_we_know", "what_we_need_to_learn"} :
            call.ret.value.knowledge_plan[sec]
              = BulletsUnder(StrippedLines(call.out.text), sec, None)
\* a bullet before the first header is dropped, the one after it is filed
W_C30_BulletBeforeAndAfterHeader ==
    /\ call.fn = "refine_problem_statement"
    /\ call.out = Ok(Join(<< <<SP, SP, "-", SP, "budgets are fixed">>, LearnStart,
                             <<SP, SP, "-", SP, "which tools help">> >>, <<NL>>))
    /\ call.ret.value.knowledge_plan =
         [what_we_know |-> <<>>, what_we_need_to_learn |-> << <<"which tools help">> >>]

\* the search whose answer a question's entry holds: the last one made for it
LastSearchOf(q) ==
    react_agent.outcomes[CHOOSE j \in 1..Len(react_agent.questions) :
                            /\ react_agent.questions[j] = q
                            /\ \A k \in (j + 1)..Len(react_agent.questions) :
                                  react_agent.questions[k] # q]
\* the results a search handed back, none when the dict has no "results" key
ResultsOf(outcome) == IF "results" \in DOMAIN outcome.result THEN outcome.result.results ELSE <<>>
\* the search itself failed, or one of the first two results cannot be summarised
SearchFailed(outcome) ==
    \/ ~outcome.ok
    \/ \E i \in 1..Len(ResultsOf(outcome)) : i <= 2 /\ ContentOf(ResultsOf(outcome)[i]) = None
PointCount(answer) == Cardinality({i \in 1..Len(answer) : answer[i] = DiamondSign})
LesserOfTwo(n) == IF n < 2 THEN n ELSE 2

\* C29: search_answers never raises and covers every question: after it
\* returns, answers has an entry for each question of self.questions, which is
\* the error marker when that question's own search failed and otherwise the
\* summary of at most 2 of its results; a failure on one question leaves the
\* entries of the other questions as their own searches made them.
C29_SearchAnswersCoversEveryQuestion ==
    react_agent.call = "search_answers" =>
        /\ ~react_agent.raised
        /\ \A i \in 1..Len(react_agent.questions) :
              LET q == react_agent.questions[i]
              IN  /\ q \in DictKeys(react_agent.answers)
                  /\ IF SearchFailed(LastSearchOf(q))
                     THEN StartsWith(DictGet(react_agent.answers, q), ErrorMarker)
                     ELSE /\ ~StartsWith(DictGet(react_agent.answers, q), ErrorMarker)
                          /\ PointCount(DictGet(react_agent.answers, q))
                               = LesserOfTwo(Len(ResultsOf(LastSearchOf(q))))
\* the first question's search failed and the second question still has the
\* summary of two of its three results
W_C29_FailureThenSummary ==
    /\ react_agent.call = "search_answers"
    /\ react_agent.questions = <<QuestionA, QuestionB>>
    /\ ~react_agent.outcomes[1].ok
    /\ react_agent.outcomes[2] = Found([results |-> <<ResultLong, ResultNoContent, ResultNull>>])
    /\ StartsWith(DictGet(react_agent.answers, QuestionA), ErrorMarker)
    /\ PointCount(DictGet(react_agent.answers, QuestionB)) = 2

====
